---- MODULE Spec2Model ----
\* Finance API demo (src/app/app.py): secret resolution, the global
\* connection pool and the HTTP handlers that use them, as a state machine.
\*
\* Text values that the code slices, strips or parses (credentials, file
\* contents, port numbers) are sequences of one-character strings.
\* Dictionaries are functions whose DOMAIN is the set of keys present.
\* Exceptions are named by their class (and message where two differ).
EXTENDS Integers, Sequences, FiniteSets, TLC

\* ---------------------------------------------------------------- bounds
NumThreads == 2
NumVersions == 2
MaxPools == 2
MaxSeqRequests == 4
MaxThreadedRequests == 3
MaxSoakRequests == 12

\* ------------------------------------------------------ program constants
minconn == 1
maxconn == 10
PREVIEW_LEN == 3

Threads == 1..NumThreads
Versions == 1..NumVersions

\* ------------------------------------------------------------ text helpers
Whitespace == {" ", "\n"}
Digits == <<"0", "1", "2", "3", "4", "5", "6", "7", "8", "9">>

RECURSIVE lstrip(_)
lstrip(s) == IF s # <<>> /\ Head(s) \in Whitespace THEN lstrip(Tail(s)) ELSE s

RECURSIVE rstrip(_)
rstrip(s) ==
    IF s # <<>> /\ s[Len(s)] \in Whitespace THEN rstrip(SubSeq(s, 1, Len(s) - 1)) ELSE s

\* str.strip()
strip(s) == rstrip(lstrip(s))

DigitValue(c) == CHOOSE d \in 0..9 : Digits[d + 1] = c

IsDigit(c) == \E d \in 1..10 : Digits[d] = c

\* int(text) succeeds on surrounding whitespace plus one or more decimal digits
IsInt(s) == strip(s) # <<>> /\ \A i \in 1..Len(strip(s)) : IsDigit(strip(s)[i])

RECURSIVE DecimalValue(_)
DecimalValue(s) ==
    IF s = <<>> THEN 0
    ELSE 10 * DecimalValue(SubSeq(s, 1, Len(s) - 1)) + DigitValue(s[Len(s)])

int(s) == DecimalValue(strip(s))

\* dict.get(key, default) and os.getenv(key, default)
Get(d, k, default) == IF k \in DOMAIN d THEN d[k] ELSE default

\* str.lower() on the letters the inputs use
LowerChar(c) ==
    CASE c = "T" -> "t" [] c = "R" -> "r" [] c = "U" -> "u" [] c = "E" -> "e"
      [] c = "F" -> "f" [] c = "A" -> "a" [] c = "L" -> "l" [] c = "S" -> "s"
      [] OTHER -> c

lower(s) == [i \in 1..Len(s) |-> LowerChar(s[i])]

\* -------------------------------------------------- defaults in the code
LOCALHOST == <<"l", "o", "c", "a", "l", "h", "o", "s", "t">>
DEFAULT_PORT_TEXT == <<"5", "4", "3", "2">>
APPDB == <<"a", "p", "p", "d", "b">>
POSTGRES == <<"p", "o", "s", "t", "g", "r", "e", "s">>
EMPTY == <<>>
TRUE_TEXT == <<"t", "r", "u", "e">>
FALSE_TEXT == <<"f", "a", "l", "s", "e">>

Ok(c) == [ok |-> TRUE, creds |-> c]
Raise(e) == [ok |-> FALSE, error |-> e]

Creds(h, p, d, u, w) == [host |-> h, port |-> p, database |-> d, user |-> u, password |-> w]

\* ------------------------------------------------------------ input data
\* The process environment, fixed when the process starts.
Pad(c, n) == [i \in 1..n |-> c]

NoEnv == [k \in {} |-> EMPTY]

DbEnv ==
    [DB_HOST |-> <<"e", "h">>, DB_PORT |-> <<"6", "5", "4", "3">>, DB_NAME |-> <<"e", "d">>,
     DB_USERNAME |-> <<"e", "u">>, DB_PASSWORD |-> <<"e", "p", "w">>]

EnvChoices ==
    { NoEnv,
      DbEnv @@ [API_KEY |-> EMPTY, ENABLE_SECRET_DEBUG |-> <<"T", "R", "U", "E">>],
      DbEnv @@ [API_KEY |-> <<"k">>, ENABLE_SECRET_DEBUG |-> TRUE_TEXT] }

SourceChoices == {"env", "file", "aws-secrets", "aws-ssm", "vault", "consul"}

\* Request headers a client may send to /api/v1/refresh-secrets.
HeaderChoices ==
    { NoEnv, [X_API_Key |-> EMPTY], [X_API_Key |-> <<"k">>], [X_API_Key |-> <<"z">>] }

\* What each backend holds at secret version v: the password grows by two
\* characters per version, the user name by one.
Password(tag, v) == <<tag>> \o Pad("x", 2 * v - 1)
User(tag, v) == <<tag, "u">> \o Pad("n", v)

\* Files under SECRETS_PATH: the JSON file at odd versions, the individual
\* files (with a trailing newline, no port file) at even versions.
FileSystem(v) ==
    IF v % 2 = 1
    THEN [json |-> [host |-> <<"f", "h">>, port |-> <<"7", "0">>, dbname |-> <<"f", "d">>,
                    user |-> User("f", v), password |-> Password("f", v)]]
    ELSE [host |-> <<"f", "h", "\n">>, database |-> <<" ", "f", "d">>,
          username |-> User("f", v) \o <<"\n">>, password |-> Password("f", v) \o <<"\n">>]

\* The parsed SecretString of AWS Secrets Manager.
SecretString(v) ==
    IF v % 2 = 1
    THEN [host |-> <<"a", "h">>, port |-> <<"7", "1">>, dbname |-> <<"a", "d">>,
          username |-> User("a", v), password |-> Password("a", v)]
    ELSE [host |-> <<"a", "h">>, database |-> <<"a", "d">>,
          username |-> User("a", v), password |-> Password("a", v)]

\* The Parameters list of get_parameters_by_path; the Name is its path segments.
Param(name, value) == [Name |-> <<"app", "database", name>>, Value |-> value]

Parameters(v) ==
    << Param("host", <<"s", "h">>),
       Param("port", IF v % 2 = 1 THEN <<"7", "2">> ELSE <<"7", "x">>),
       Param("username", User("s", v)),
       Param("password", Password("s", v)) >>

\* The response of Vault's generate_credentials.
VaultResponse(v) == [data |-> [username |-> User("v", v), password |-> Password("v", v)]]

\* ------------------------------------------------------- secret sources
_get_from_env(env) ==
    IF ~IsInt(Get(env, "DB_PORT", DEFAULT_PORT_TEXT)) THEN Raise("ValueError")
    ELSE Ok(Creds(Get(env, "DB_HOST", LOCALHOST),
                  int(Get(env, "DB_PORT", DEFAULT_PORT_TEXT)),
                  Get(env, "DB_NAME", APPDB),
                  Get(env, "DB_USERNAME", POSTGRES),
                  Get(env, "DB_PASSWORD", EMPTY)))

_read_file(fs, path, default) == IF path \in DOMAIN fs THEN strip(fs[path]) ELSE default

_get_from_file(fs) ==
    IF "json" \in DOMAIN fs
    THEN LET data == fs["json"] IN
         IF ~IsInt(Get(data, "port", DEFAULT_PORT_TEXT)) THEN Raise("ValueError")
         ELSE Ok(Creds(Get(data, "host", LOCALHOST),
                       int(Get(data, "port", DEFAULT_PORT_TEXT)),
                       Get(data, "dbname", Get(data, "database", APPDB)),
                       Get(data, "username", Get(data, "user", POSTGRES)),
                       Get(data, "password", EMPTY)))
    ELSE IF ~IsInt(_read_file(fs, "port", DEFAULT_PORT_TEXT)) THEN Raise("ValueError")
    ELSE Ok(Creds(_read_file(fs, "host", LOCALHOST),
                  int(_read_file(fs, "port", DEFAULT_PORT_TEXT)),
                  _read_file(fs, "database", APPDB),
                  _read_file(fs, "username", POSTGRES),
                  _read_file(fs, "password", EMPTY)))

_get_from_aws_secrets_manager(up, data) ==
    IF ~up THEN Raise("ClientError")
    ELSE IF ~IsInt(Get(data, "port", DEFAULT_PORT_TEXT)) THEN Raise("ValueError")
    ELSE Ok(Creds(Get(data, "host", LOCALHOST),
                  int(Get(data, "port", DEFAULT_PORT_TEXT)),
                  Get(data, "dbname", APPDB),
                  Get(data, "username", POSTGRES),
                  Get(data, "password", EMPTY)))

\* {p['Name'].split('/')[-1]: p['Value'] for p in response['Parameters']}
ParamsDict(plist) ==
    [k \in {plist[i].Name[Len(plist[i].Name)] : i \in 1..Len(plist)} |->
        LET last == CHOOSE i \in 1..Len(plist) :
                        /\ plist[i].Name[Len(plist[i].Name)] = k
                        /\ \A j \in (i + 1)..Len(plist) : plist[j].Name[Len(plist[j].Name)] # k
        IN plist[last].Value]

_get_from_aws_parameter_store(up, plist) ==
    LET params == ParamsDict(plist) IN
    IF ~up THEN Raise("ClientError")
    ELSE IF ~IsInt(Get(params, "port", DEFAULT_PORT_TEXT)) THEN Raise("ValueError")
    ELSE Ok(Creds(Get(params, "host", LOCALHOST),
                  int(Get(params, "port", DEFAULT_PORT_TEXT)),
                  Get(params, "database", APPDB),
                  Get(params, "username", POSTGRES),
                  Get(params, "password", EMPTY)))

_get_from_vault(up, env, response) ==
    IF ~up THEN Raise("VaultError")
    ELSE IF ~IsInt(Get(env, "DB_PORT", DEFAULT_PORT_TEXT)) THEN Raise("ValueError")
    ELSE Ok(Creds(Get(env, "DB_HOST", LOCALHOST),
                  int(Get(env, "DB_PORT", DEFAULT_PORT_TEXT)),
                  Get(env, "DB_NAME", APPDB),
                  response["data"]["username"],
                  response["data"]["password"]))

\* As get_database_credentials, with an unrecognised source read from the
\* file mount instead of the environment.
get_database_credentials_unknown_to_file(source, env, up, v) ==
    IF source = "env" THEN _get_from_env(env)
    ELSE IF source = "file" THEN _get_from_file(FileSystem(v))
    ELSE IF source = "aws-secrets" THEN _get_from_aws_secrets_manager(up, SecretString(v))
    ELSE IF source = "aws-ssm" THEN _get_from_aws_parameter_store(up, Parameters(v))
    ELSE IF source = "vault" THEN _get_from_vault(up, env, VaultResponse(v))
    ELSE _get_from_file(FileSystem(v))

\* SecretManager.get_database_credentials: the result of the selected source,
\* with any exception re-raised.
get_database_credentials(source, env, up, v) ==
    IF source = "env" THEN _get_from_env(env)
    ELSE IF source = "file" THEN _get_from_file(FileSystem(v))
    ELSE IF source = "aws-secrets" THEN _get_from_aws_secrets_manager(up, SecretString(v))
    ELSE IF source = "aws-ssm" THEN _get_from_aws_parameter_store(up, Parameters(v))
    ELSE IF source = "vault" THEN _get_from_vault(up, env, VaultResponse(v))
    ELSE _get_from_env(env)

\* ------------------------------------------------------------------ state
VARIABLES
    secret_source,   \* SecretManager.secret_source, read once from SECRET_SOURCE
    env,             \* the process environment
    secret_version,  \* which secret the external backends currently hold
    backend_up,      \* whether the AWS / Vault APIs answer
    db_up,           \* whether PostgreSQL accepts connections and queries
    table_exists,    \* whether the accounts table has been created
    db_pool,         \* the global db_pool: 0 is None, else an index into pools
    pools,           \* every ThreadedConnectionPool constructed so far
    thr,             \* per request thread: position, locals and response
    workers,         \* the request threads the server runs
    budget,          \* requests still to be accepted
    db_was_down      \* history: the database has been unreachable at some time

vars ==
    << secret_source, env, secret_version, backend_up, db_up, table_exists,
       db_pool, pools, thr, workers, budget, db_was_down >>

NoCreds == Creds(EMPTY, 0, EMPTY, EMPTY, EMPTY)

NoResponse == [status |-> 0, kind |-> "", error |-> "", password_length |-> 0,
               password_preview |-> EMPTY]

Response(status, kind, error) ==
    [status |-> status, kind |-> kind, error |-> error, password_length |-> 0,
     password_preview |-> EMPTY]

\* A thread between requests. Two fields record history: stale, the
\* credentials held were read before a refresh_db_pool that has since
\* completed and were no longer the source's when it completed; raised, the
\* exception raised while the request was served.
Idle ==
    [pc |-> "idle", ep |-> "", hdr |-> NoEnv, creds |-> NoCreds, conn |-> 0,
     stale |-> FALSE, raised |-> "", resp |-> NoResponse]

\* pool.ThreadedConnectionPool(minconn=1, maxconn=10, ...): minconn connections
\* are opened at once and wait idle. stale is copied from the creating thread.
ThreadedConnectionPool(creds, stale) ==
    [params |-> creds, closed |-> FALSE, used |-> 0, idle |-> minconn, stale |-> stale]

\* ------------------------------------------------------- error handling
\* The except clauses of the handlers: what a raised exception becomes.
\* As ready_except, without the exception string in the body.
ready_except_no_detail(e) == Response(503, "not_ready", "")

ready_except(e) == Response(503, "not_ready", e)

list_accounts_except(e) ==
    IF e = "ProgrammingError" THEN Response(200, "demo", "")
    ELSE Response(500, "error", e)

create_account_except(e) == Response(500, "error", e)

refresh_secrets_except(e) == Response(500, "error", e)

\* secret_info has no try block: the exception leaves the view function and
\* Flask answers with its generic 500 page.
secret_info_unhandled(e) == Response(500, "unhandled", "")

HandlerExcept(ep, e) ==
    CASE ep = "ready" -> ready_except(e)
      [] ep = "list" -> list_accounts_except(e)
      [] ep = "create" -> create_account_except(e)
      [] ep = "refresh" -> refresh_secrets_except(e)
      [] OTHER -> secret_info_unhandled(e)

Finish(t, resp) == [thr[t] EXCEPT !.pc = "done", !.resp = resp]

Fail(t, e) == [thr[t] EXCEPT !.pc = "done", !.raised = e, !.resp = HandlerExcept(thr[t].ep, e)]

\* ---------------------------------------------------------------- Init
InitWith(S, E, w, b) ==
    /\ secret_source \in S
    /\ env \in E
    /\ secret_version = 1
    /\ backend_up = TRUE
    /\ db_up = TRUE
    /\ table_exists = FALSE
    /\ db_pool = 0
    /\ pools = <<>>
    /\ thr = [t \in Threads |-> Idle]
    /\ workers = w
    /\ budget = b
    /\ db_was_down = FALSE

\* One request at a time.
Init == InitWith(SourceChoices, EnvChoices, {1}, MaxSeqRequests)

\* Concurrent request threads (app.run(threaded=True)).
ThreadedEnv == DbEnv @@ [API_KEY |-> <<"k">>, ENABLE_SECRET_DEBUG |-> TRUE_TEXT]

InitThreaded == InitWith({"vault"}, {ThreadedEnv}, Threads, MaxThreadedRequests)

\* One request at a time, for long enough to use up a pool's connections.
InitSoak == InitWith({"env"}, {ThreadedEnv}, {1}, MaxSoakRequests)

\* ------------------------------------------------------- the environment
RotateSecret ==
    /\ \E v \in Versions \ {secret_version} : secret_version' = v
    /\ UNCHANGED << secret_source, env, backend_up, db_up, table_exists, db_pool, pools,
                    thr, workers, budget, db_was_down >>

BackendToggle ==
    /\ backend_up' = ~backend_up
    /\ UNCHANGED << secret_source, env, secret_version, db_up, table_exists, db_pool, pools,
                    thr, workers, budget, db_was_down >>

DbToggle ==
    /\ db_up' = ~db_up
    /\ db_was_down' = TRUE
    /\ UNCHANGED << secret_source, env, secret_version, backend_up, table_exists, db_pool,
                    pools, thr, workers, budget >>

\* -------------------------------------------------------------- requests
Accept(t) == t \in workers /\ thr[t].pc = "idle" /\ budget > 0 /\ budget' = budget - 1

Fixed == << secret_source, env, secret_version, backend_up, db_up, workers, db_was_down >>

\* GET /ready, up to the call of get_db_connection
ready(t) ==
    /\ Accept(t)
    /\ thr' = [thr EXCEPT ![t] = [Idle EXCEPT !.pc = "gdc_check", !.ep = "ready"]]
    /\ UNCHANGED << Fixed, table_exists, db_pool, pools >>

\* GET /api/v1/accounts, up to the call of get_db_connection
list_accounts(t) ==
    /\ Accept(t)
    /\ thr' = [thr EXCEPT ![t] = [Idle EXCEPT !.pc = "gdc_check", !.ep = "list"]]
    /\ UNCHANGED << Fixed, table_exists, db_pool, pools >>

\* POST /api/v1/accounts, up to the call of get_db_connection; a request
\* without a JSON object fails at data.get with AttributeError.
create_account(t, has_json) ==
    /\ Accept(t)
    /\ thr' = [thr EXCEPT ![t] =
                 IF has_json THEN [Idle EXCEPT !.pc = "gdc_check", !.ep = "create"]
                 ELSE [Idle EXCEPT !.pc = "done", !.ep = "create", !.raised = "AttributeError",
                                   !.resp = create_account_except("AttributeError")]]
    /\ UNCHANGED << Fixed, table_exists, db_pool, pools >>

secret_debug_enabled(e) == lower(Get(e, "ENABLE_SECRET_DEBUG", FALSE_TEXT)) = TRUE_TEXT

\* creds['password'][:3] + '***' if creds['password'] else 'EMPTY'
password_preview(password) ==
    IF password # EMPTY
    THEN SubSeq(password, 1, IF Len(password) < PREVIEW_LEN THEN Len(password) ELSE PREVIEW_LEN)
         \o <<"*", "*", "*">>
    ELSE <<"E", "M", "P", "T", "Y">>

secret_info_body(creds) ==
    [status |-> 200, kind |-> "info", error |-> "",
     password_length |-> Len(creds.password),
     password_preview |-> password_preview(creds.password)]

\* GET /api/v1/secret-info, the whole handler
secret_info(t) ==
    /\ Accept(t)
    /\ LET r == get_database_credentials(secret_source, env, backend_up, secret_version)
           resp == IF ~secret_debug_enabled(env) THEN Response(403, "forbidden", "")
                   ELSE IF r.ok THEN secret_info_body(r.creds)
                   ELSE secret_info_unhandled(r.error)
           creds == IF secret_debug_enabled(env) /\ r.ok THEN r.creds ELSE NoCreds
           raised == IF secret_debug_enabled(env) /\ ~r.ok THEN r.error ELSE ""
       IN thr' = [thr EXCEPT ![t] = [Idle EXCEPT !.pc = "done", !.ep = "info", !.creds = creds,
                                                 !.raised = raised, !.resp = resp]]
    /\ UNCHANGED << Fixed, table_exists, db_pool, pools >>

\* request.headers.get(name) and os.getenv(name): None is the empty set
Opt(d, k) == IF k \in DOMAIN d THEN {d[k]} ELSE {}

\* As refresh_secrets_unauthorized, without the test for a missing or empty
\* API_KEY.
refresh_secrets_unauthorized_compare_only(e, hdr) ==
    Opt(hdr, "X_API_Key") # Opt(e, "API_KEY")

\* not expected_key or api_key != expected_key
refresh_secrets_unauthorized(e, hdr) ==
    LET api_key == Opt(hdr, "X_API_Key")
        expected_key == Opt(e, "API_KEY")
    IN expected_key = {} \/ expected_key = {EMPTY} \/ api_key # expected_key

\* POST /api/v1/refresh-secrets, up to the call of refresh_db_pool
refresh_secrets(t, hdr) ==
    /\ Accept(t)
    /\ thr' = [thr EXCEPT ![t] =
                 IF refresh_secrets_unauthorized(env, hdr)
                 THEN [Idle EXCEPT !.pc = "done", !.ep = "refresh", !.hdr = hdr,
                                   !.resp = Response(401, "unauthorized", "")]
                 ELSE [Idle EXCEPT !.pc = "rf_check", !.ep = "refresh", !.hdr = hdr]]
    /\ UNCHANGED << Fixed, table_exists, db_pool, pools >>

\* ----------------------------------------------------- get_db_connection
At(t, pc) == t \in workers /\ thr[t].pc = pc

\* if db_pool is None
gdc_check(t) ==
    /\ At(t, "gdc_check")
    /\ thr' = [thr EXCEPT ![t].pc = IF db_pool = 0 THEN "gdc_read" ELSE "gdc_getconn"]
    /\ UNCHANGED << Fixed, table_exists, db_pool, pools, budget >>

\* creds = secret_manager.get_database_credentials()
gdc_read(t) ==
    /\ At(t, "gdc_read")
    /\ LET r == get_database_credentials(secret_source, env, backend_up, secret_version) IN
       thr' = [thr EXCEPT ![t] =
                 IF r.ok THEN [thr[t] EXCEPT !.pc = "gdc_create", !.creds = r.creds]
                 ELSE Fail(t, r.error)]
    /\ UNCHANGED << Fixed, table_exists, db_pool, pools, budget >>

\* db_pool = pool.ThreadedConnectionPool(...): the constructor connects.
gdc_create(t) ==
    /\ At(t, "gdc_create")
    /\ Len(pools) < MaxPools
    /\ IF db_up
       THEN /\ pools' = Append(pools, ThreadedConnectionPool(thr[t].creds, thr[t].stale))
            /\ db_pool' = Len(pools) + 1
            /\ thr' = [thr EXCEPT ![t].pc = "gdc_getconn"]
       ELSE /\ thr' = [thr EXCEPT ![t] = Fail(t, "OperationalError")]
            /\ UNCHANGED << db_pool, pools >>
    /\ UNCHANGED << Fixed, table_exists, budget >>

\* AbstractConnectionPool._getconn: the exception it raises, "" for none.
getconn_error(p, dbup) ==
    IF p.closed THEN "PoolError: connection pool is closed"
    ELSE IF p.idle > 0 THEN ""
    ELSE IF p.used = maxconn THEN "PoolError: connection pool exhausted"
    ELSE IF ~dbup THEN "OperationalError"
    ELSE ""

getconn(p) ==
    IF p.idle > 0 THEN [p EXCEPT !.idle = @ - 1, !.used = @ + 1]
    ELSE [p EXCEPT !.used = @ + 1]

\* return db_pool.getconn()
gdc_getconn(t) ==
    /\ At(t, "gdc_getconn")
    /\ IF db_pool = 0
       THEN /\ thr' = [thr EXCEPT ![t] = Fail(t, "AttributeError")]
            /\ UNCHANGED pools
       ELSE IF getconn_error(pools[db_pool], db_up) # ""
       THEN /\ thr' = [thr EXCEPT ![t] = Fail(t, getconn_error(pools[db_pool], db_up))]
            /\ UNCHANGED pools
       ELSE /\ pools' = [pools EXCEPT ![db_pool] = getconn(@)]
            /\ thr' = [thr EXCEPT ![t].pc = "query", ![t].conn = db_pool]
    /\ UNCHANGED << Fixed, table_exists, db_pool, budget >>

\* ---------------------------------------------------- return_db_connection
\* AbstractConnectionPool._putconn: the exception it raises, "" for none.
putconn_error(p, owner) ==
    IF p.closed THEN "PoolError: connection pool is closed"
    ELSE IF ~owner THEN "PoolError: trying to put unkeyed connection"
    ELSE ""

putconn(p) ==
    [p EXCEPT !.used = @ - 1, !.idle = IF @ < minconn THEN @ + 1 ELSE @]

\* if db_pool and conn: db_pool.putconn(conn)
return_db_connection_error(conn) ==
    IF db_pool # 0 /\ conn # 0 THEN putconn_error(pools[db_pool], db_pool = conn) ELSE ""

return_db_connection(conn) ==
    IF db_pool # 0 /\ conn # 0 /\ putconn_error(pools[db_pool], db_pool = conn) = ""
    THEN [pools EXCEPT ![db_pool] = putconn(@)]
    ELSE pools

\* ------------------------------------------------ the handlers' queries
\* cursor.execute(...): the exception it raises, "" for none. closeall has
\* closed the connections of a closed pool.
execute_error(ep, conn) ==
    IF pools[conn].closed THEN "InterfaceError"
    ELSE IF ~db_up THEN "OperationalError"
    ELSE IF ep = "list" /\ ~table_exists THEN "ProgrammingError"
    ELSE ""

Success(ep) ==
    CASE ep = "ready" -> Response(200, "ready", "")
      [] ep = "list" -> Response(200, "accounts", "")
      [] OTHER -> Response(201, "created", "")

\* From conn.cursor() to the handler's return: the statements, the commit of
\* create_account, return_db_connection and the response.
query(t) ==
    /\ At(t, "query")
    /\ LET ep == thr[t].ep
           conn == thr[t].conn
       IN IF execute_error(ep, conn) # ""
          THEN /\ thr' = [thr EXCEPT ![t] = Fail(t, execute_error(ep, conn))]
               /\ UNCHANGED << table_exists, pools >>
          ELSE /\ table_exists' = (table_exists \/ ep = "create")
               /\ pools' = return_db_connection(conn)
               /\ thr' = [thr EXCEPT ![t] =
                            IF return_db_connection_error(conn) # ""
                            THEN Fail(t, return_db_connection_error(conn))
                            ELSE Finish(t, Success(ep))]
    /\ UNCHANGED << Fixed, db_pool, budget >>

\* --------------------------------------------------------- refresh_db_pool
\* closeall marks the pool closed and closes its connections; the counts of
\* a closed pool are never read again and are reset here.
closeall(p) == [p EXCEPT !.closed = TRUE, !.used = 0, !.idle = 0]

\* refresh_db_pool has completed: a thread that holds credentials it read
\* earlier, and that the source no longer returns, holds credentials that were
\* out of date before the refresh completed.
MarkStale(th) ==
    LET now == get_database_credentials(secret_source, env, backend_up, secret_version) IN
    [u \in Threads |->
        IF th[u].pc = "gdc_create" /\ now.ok /\ now.creds # th[u].creds
        THEN [th[u] EXCEPT !.stale = TRUE]
        ELSE th[u]]

refresh_success == Response(200, "success", "")

\* if db_pool: db_pool.closeall()
rf_check(t) ==
    /\ At(t, "rf_check")
    /\ IF db_pool = 0
       THEN /\ thr' = MarkStale([thr EXCEPT ![t] = Finish(t, refresh_success)])
            /\ UNCHANGED pools
       ELSE IF pools[db_pool].closed
       THEN /\ thr' = [thr EXCEPT ![t] = Fail(t, "PoolError: connection pool is closed")]
            /\ UNCHANGED pools
       ELSE /\ pools' = [pools EXCEPT ![db_pool] = closeall(@)]
            /\ thr' = [thr EXCEPT ![t].pc = "rf_clear"]
    /\ UNCHANGED << Fixed, table_exists, db_pool, budget >>

\* db_pool = None, and the handler's success response
rf_clear(t) ==
    /\ At(t, "rf_clear")
    /\ db_pool' = 0
    /\ thr' = MarkStale([thr EXCEPT ![t] = Finish(t, refresh_success)])
    /\ UNCHANGED << Fixed, table_exists, pools, budget >>

\* The response has been sent; the thread takes the next request.
respond(t) ==
    /\ At(t, "done")
    /\ thr' = [thr EXCEPT ![t] = Idle]
    /\ UNCHANGED << Fixed, table_exists, db_pool, pools, budget >>

\* ------------------------------------------------------------------ Next
Next ==
    \/ RotateSecret
    \/ BackendToggle
    \/ DbToggle
    \/ \E t \in Threads : ready(t)
    \/ \E t \in Threads : list_accounts(t)
    \/ \E t \in Threads, has_json \in BOOLEAN : create_account(t, has_json)
    \/ \E t \in Threads : secret_info(t)
    \/ \E t \in Threads, hdr \in HeaderChoices : refresh_secrets(t, hdr)
    \/ \E t \in Threads : gdc_check(t)
    \/ \E t \in Threads : gdc_read(t)
    \/ \E t \in Threads : gdc_create(t)
    \/ \E t \in Threads : gdc_getconn(t)
    \/ \E t \in Threads : query(t)
    \/ \E t \in Threads : rf_check(t)
    \/ \E t \in Threads : rf_clear(t)
    \/ \E t \in Threads : respond(t)

Spec == Init /\ [][Next]_vars

SpecThreaded == InitThreaded /\ [][Next]_vars

SpecSoak == InitSoak /\ [][Next]_vars

\* ================================================================ claims
Done(t, ep) == thr[t].pc = "done" /\ thr[t].ep = ep

\* ---- C1
Expected ==
    CASE secret_source = "env" -> _get_from_env(env)
      [] secret_source = "file" -> _get_from_file(FileSystem(secret_version))
      [] secret_source = "aws-secrets" ->
            _get_from_aws_secrets_manager(backend_up, SecretString(secret_version))
      [] secret_source = "aws-ssm" ->
            _get_from_aws_parameter_store(backend_up, Parameters(secret_version))
      [] secret_source = "vault" -> _get_from_vault(backend_up, env, VaultResponse(secret_version))
      [] OTHER -> _get_from_env(env)

ReadsSelectedSource(t) ==
    (thr[t].pc = "gdc_read" /\ thr'[t] # thr[t]) =>
        IF Expected.ok
        THEN thr'[t].pc = "gdc_create" /\ thr'[t].creds = Expected.creds
        ELSE thr'[t].pc = "done" /\ thr'[t].raised = Expected.error

InstallsWhatItRead(t) ==
    (thr[t].pc = "gdc_create" /\ thr'[t].pc = "gdc_getconn") =>
        /\ db_pool' = Len(pools) + 1
        /\ Len(pools') = Len(pools) + 1
        /\ pools'[db_pool'].params = thr[t].creds

\* C1: whenever get_db_connection creates the pool, the pool's host, port,
\* database, user and password are the fields returned by the source that
\* SECRET_SOURCE selects (env, file, aws-secrets, aws-ssm, vault), and an
\* unrecognised SECRET_SOURCE gives the fields of the env source.
C1_PoolFromSelectedSource ==
    [][\A t \in Threads : ReadsSelectedSource(t) /\ InstallsWhatItRead(t)]_vars

\* A pool built under an unrecognised SECRET_SOURCE from the environment's fields.
C1_Witness ==
    /\ secret_source = "consul"
    /\ db_pool # 0
    /\ pools[db_pool].params = Creds(<<"e", "h">>, 6543, <<"e", "d">>, <<"e", "u">>, <<"e", "p", "w">>)

\* ---- C2
DbOrSecretErrors ==
    { "OperationalError", "ProgrammingError", "InterfaceError",
      "PoolError: connection pool is closed", "PoolError: connection pool exhausted",
      "PoolError: trying to put unkeyed connection",
      "ClientError", "VaultError", "ValueError" }

Surfaced(t) ==
    /\ thr[t].resp.status \in {500, 503}
    /\ thr[t].resp.kind \in {"error", "not_ready"}
    /\ thr[t].resp.error = thr[t].raised

C3_RefreshRecreatesPool ==
    \A t \in Threads :
        (Done(t, "refresh") /\ thr[t].resp = refresh_success) =>
            /\ db_pool # 0
            /\ ~pools[db_pool].closed
            /\ thr[t].creds # NoCreds
            /\ pools[db_pool].params = thr[t].creds

\* ---- C4
KeyUnsetOrEmptyOrDifferent(hdr) ==
    \/ "API_KEY" \notin DOMAIN env
    \/ env["API_KEY"] = EMPTY
    \/ "X_API_Key" \notin DOMAIN hdr
    \/ hdr["X_API_Key"] # env["API_KEY"]

PoolClosedOrCleared ==
    \/ db_pool # 0 /\ db_pool' = 0
    \/ \E i \in 1..Len(pools) : ~pools[i].closed /\ pools'[i].closed

\* C4: POST /api/v1/refresh-secrets answers 401 and leaves the pool as it
\* was whenever API_KEY is unset or empty or the X-API-Key header differs
\* from it; only a request whose X-API-Key equals a non-empty API_KEY closes
\* or clears the pool.
C4_RefreshNeedsKey ==
    [][/\ \A t \in Threads, hdr \in HeaderChoices :
            (thr[t].pc = "idle" /\ thr'[t].ep = "refresh" /\ thr'[t].hdr = hdr
                /\ KeyUnsetOrEmptyOrDifferent(hdr)) =>
                /\ thr'[t].pc = "done"
                /\ thr'[t].resp.status = 401
                /\ db_pool' = db_pool
                /\ pools' = pools
       /\ PoolClosedOrCleared =>
            \E t \in Threads :
                /\ thr[t].ep = "refresh"
                /\ thr'[t] # thr[t]
                /\ ~KeyUnsetOrEmptyOrDifferent(thr[t].hdr)]_vars

\* A request with a wrong key was answered 401 and the pool is still in place.
C4_Witness ==
    \E t \in Threads :
        /\ Done(t, "refresh")
        /\ thr[t].hdr = [X_API_Key |-> <<"z">>]
        /\ thr[t].resp.status = 401
        /\ db_pool # 0
        /\ ~pools[db_pool].closed

\* ---- C5
Contains(hay, needle) ==
    \E i \in 0..(Len(hay) - Len(needle)) : SubSeq(hay, i + 1, i + Len(needle)) = needle

RECURSIVE IntText(_)
IntText(n) == IF n < 10 THEN <<Digits[n + 1]>> ELSE IntText(n \div 10) \o <<Digits[(n % 10) + 1]>>

\* C5: GET /api/v1/secret-info never exposes the password: for a non-empty
\* password, neither password_length nor password_preview contains the whole
\* password.
C5_PasswordNeverExposed ==
    \A t \in Threads :
        (Done(t, "info") /\ thr[t].resp.kind = "info" /\ thr[t].creds.password # EMPTY) =>
            /\ ~Contains(thr[t].resp.password_preview, thr[t].creds.password)
            /\ ~Contains(IntText(thr[t].resp.password_length), thr[t].creds.password)

\* ---- C6
\* C6: while the accounts table does not exist and the database has been
\* reachable throughout, every GET /api/v1/accounts is answered with the 200
\* demo response, whatever requests came before.
C6_DemoResponseWithoutTable ==
    \A t \in Threads :
        (Done(t, "list") /\ ~table_exists /\ ~db_was_down) =>
            thr[t].resp = Response(200, "demo", "")

\* ---- C7
\* C7: once refresh_db_pool has completed, every pool that get_db_connection
\* installs afterwards was built from credentials read after that completion
\* (here: never from credentials that were read before it and that the source
\* had already replaced when it completed).
C7_PoolsAfterRefreshAreFresh ==
    \A i \in 1..Len(pools) : ~pools[i].stale

\* ---- C8
\* C8: every pool that has been created and not closed by closeall is the
\* one db_pool refers to.
C8_NoOrphanedOpenPool ==
    \A i \in 1..Len(pools) : ~pools[i].closed => db_pool = i

====
